---- MODULE Spec2Model ----
(***************************************************************************)
(* Model of fabliip/releases.py: the Capistrano-like release layout driven *)
(* through Fabric's run().  The state is the content of env.releases_root  *)
(* on the server (release directories and the `current` / `new_current`    *)
(* symlinks that activate_release creates there), the VERSION file, and    *)
(* the position of the one task that is running.  Every run() is one step, *)
(* so the states between two remote commands are observable, and a task    *)
(* can be interrupted between two commands.                                *)
(*                                                                         *)
(* File names are modelled by their rank in Python's string order: the     *)
(* release names are dates (YmdHMS), so they sort before "current", which  *)
(* sorts before "new_current".                                             *)
(*                                                                         *)
(* Spec runs the release tasks one at a time from an empty releases root.  *)
(* SpecShared runs link_shared_files alone, SpecDeploy links, activates    *)
(* and rolls back, SpecConc runs two activate_release calls at once,       *)
(* SpecListing calls get_releases on every content and listing order, and  *)
(* SpecMultisite runs the wrapper of decorators.py step by step.           *)
(***************************************************************************)
EXTENDS Integers, Sequences, FiniteSets, TLC

\* Number of distinct release names (dates) a behaviour may use.
MaxRel == 3
\* Largest `keep` passed to clean_old_releases.
MaxKeep == 2

ReleaseNames == 1..MaxRel
\* The entries "current" and "new_current" of env.releases_root.
CURRENT == MaxRel + 1
NEW_CURRENT == MaxRel + 2
\* Python's None as a release_name.
None == 0
\* Python's None where the other values are strings.
PyNone == "None"
\* A key of env that holds nothing.
Unset == "(unset)"
\* The sites a project configures, the environments (the names of the
\* wrapped tasks), and the settings an environment gives.
SiteNames == {"blog", "shop"}
EnvNames == {"staging", "production"}
SettingKeys == {"hosts"}
EnvKeys == SettingKeys \cup {"site"}
\* What a caller can pass as the site, or a task declare as its default.
SiteArgs == SiteNames \cup {"nosuchsite", PyNone}
\* No @multisite function has been called.
NoWrapper == [pc |-> "idle", func |-> "", args |-> <<>>, defaults |-> <<>>,
              site |-> PyNone, items |-> <<>>,
              before |-> [k \in EnvKeys |-> Unset],
              raised |-> "none", invoked |-> FALSE]
\* The two callers of activate_release that run at once.
Procs == {"a", "b"}
\* A caller that has not called yet.
NoProc == [pc |-> "idle", release_name |-> None, result |-> "None"]
\* Every name an entry of env.releases_root can have.
AllNames == ReleaseNames \cup {CURRENT, NEW_CURRENT}
\* A shell that lists names from the last to the first of Python's order.
Descending == [i \in 1..(MaxRel + 2) |-> MaxRel + 3 - i]

\* Tags that resolve in repository.git, and one that does not.
GoodTags == {"1.2.2", "1.2.3"}
BadTag == "nosuchtag"
Tags == GoodTags \cup {BadTag}

\* env.releases_root
releases_root == "releases"
\* A path that names nothing (the symlink does not exist).
NoLink == <<>>

\* The targets (paths inside a release) and the link names (inside
\* shared_root) that env.shared_files may hold.
Targets == {"config.yml", "media"}
LinkNames == {"config", "uploads"}
\* Number of uuid4() names a behaviour may draw.
MaxTmp == 2
Uuids == 1..MaxTmp

\* The answers typed at rollback's prompt.
Answers == {"y", "n", "Y", "yes", ""}
\* The value of `confirm` before the prompt returns.
Unbound == "(unbound)"

VARIABLES
    rel,          \* rel[n]: "none" (no directory), "empty" (mkdir done, nothing
                  \* extracted) or the tag whose content was extracted into it
    current,      \* target of releases_root/current, or NoLink
    new_current,  \* target of releases_root/new_current, or NoLink
    VERSION,      \* content of project_root/VERSION, "none" when absent
    pc,           \* next remote command of the running task, "idle" when none
    call,         \* the task last called and its arguments
    local,        \* its local variables
    result,       \* how it ended: "running", "None", "1", an exception
    pre,          \* the remote state when the task was called
    repeat,       \* the call repeats a clean_old_releases that just returned
    shared,       \* shared[l]: target of shared_root/l, or NoLink
    tmp_links,    \* <<u, path>>: the symlink named uuid u in shared_root
    relink,       \* the call repeats a link_shared_files that just returned
    shared_files, \* env.shared_files: target -> link_name
    order,        \* the order in which iteritems() yields its keys
    ls_order,     \* the order in which the remote shell lists file names
    procs,        \* two activate_release calls run at once: where each is
    env,          \* decorators.py: the settings of fabric's env, by key
    sites,        \* decorators.py: env.sites, site -> its environments
    wrapper       \* decorators.py: the call of a @multisite function

\* The content of shared_root.
sharedFs == <<shared, tmp_links>>
\* What the configuration and the shell fix for a whole run.
config == <<shared_files, order, ls_order>>
\* What no task run on its own assigns.
aux == <<shared_files, order, ls_order, procs, env, sites, wrapper>>
\* What the multisite wrapper reads and writes.
site_state == <<env, sites, wrapper>>

vars == <<rel, current, new_current, VERSION, pc, call, local, result,
          pre, repeat, shared, tmp_links, relink, shared_files, order,
          ls_order, procs, env, sites, wrapper>>

\* The remote state the tasks act on.
FS == [rel |-> rel, current |-> current, new_current |-> new_current,
       VERSION |-> VERSION, shared |-> shared, tmp_links |-> tmp_links]

NoCall == [fn |-> "none", release_name |-> None, tag |-> "", keep |-> 0]
NoLocal == [release_name |-> None, confirm |-> Unbound, releases |-> <<>>,
            items |-> <<>>, tmp_link_name |-> 0]

----------------------------------------------------------------------------
(* Pure helpers *)

\* os.path.join(env.releases_root, release_name)
get_release_path(release_name) == <<releases_root, release_name>>

\* The release directory a path leads to when it is followed as the shell
\* follows it, None when it leads to no directory.
ResolveDir(path) ==
    IF path = NoLink THEN None
    ELSE IF path[2] \in ReleaseNames
         THEN (IF rel[path[2]] # "none" THEN path[2] ELSE None)
    ELSE IF path[2] = CURRENT /\ current # NoLink /\ current[2] \in ReleaseNames
         THEN (IF rel[current[2]] # "none" THEN current[2] ELSE None)
    ELSE None

\* The names of the entries of the releases root in remote state fs,
\* symlinks included.
Entries(fs) ==
    {n \in ReleaseNames : fs.rel[n] # "none"}
        \cup (IF fs.current # NoLink THEN {CURRENT} ELSE {})
        \cup (IF fs.new_current # NoLink THEN {NEW_CURRENT} ELSE {})

\* fabliip.file.ls(env.releases_root): the entries, one line each, in the
\* order in which the remote shell lists them.
ls ==
    LET entries == Entries(FS)
    IN  SelectSeq(ls_order, LAMBDA n : n \in entries)

\* x put before the first element of the ascending s that is not below it.
RECURSIVE Insert(_, _)
Insert(x, s) ==
    IF s = <<>> THEN <<x>>
    ELSE IF x <= Head(s) THEN <<x>> \o s
    ELSE <<Head(s)>> \o Insert(x, Tail(s))

\* The listing returned as it came.
unsorted(seq) == seq

\* Python's sorted() over a list.
RECURSIVE sorted(_)
sorted(seq) ==
    IF seq = <<>> THEN <<>> ELSE Insert(Head(seq), sorted(Tail(seq)))

get_releases == sorted(ls)

\* Python's seq[:stop]
SliceTo(seq, stop) ==
    LET n == Len(seq)
        s == IF stop < 0 THEN (IF stop + n < 0 THEN 0 ELSE stop + n)
             ELSE (IF stop > n THEN n ELSE stop)
    IN  SubSeq(seq, 1, s)

\* The mutated slice releases[:keep].
OldReleasesKeepOldest(releases, keep) == SliceTo(releases, keep)

\* releases[:-keep], the releases clean_old_releases removes.
OldReleases(releases, keep) == SliceTo(releases, 0 - keep)

\* installed_releases[-2]: the value, or the exception Python raises.
SecondToLast(installed_releases) ==
    IF Len(installed_releases) >= 2
    THEN [exc |-> "", value |-> installed_releases[Len(installed_releases) - 1]]
    ELSE [exc |-> "IndexError", value |-> None]

\* The membership test skipped.
IsInstalledAlways(release_name, installed_releases) == TRUE

\* release_name in installed_releases
IsInstalled(release_name, installed_releases) ==
    \E i \in 1..Len(installed_releases) : installed_releases[i] = release_name

\* The answer compared without regard to case.
ConfirmedAnyCase(confirm) == confirm \in {"y", "Y"}

\* not (confirm != "y")
Confirmed(confirm) == confirm = "y"

----------------------------------------------------------------------------
(* Initial state: an empty releases root, no task running *)

Init ==
    /\ rel = [n \in ReleaseNames |-> "none"]
    /\ current = NoLink
    /\ new_current = NoLink
    /\ VERSION = "none"
    /\ pc = "idle"
    /\ call = NoCall
    /\ local = NoLocal
    /\ result = "None"
    /\ pre = [rel |-> [n \in ReleaseNames |-> "none"], current |-> NoLink,
              new_current |-> NoLink, VERSION |-> "none",
              shared |-> [l \in LinkNames |-> NoLink], tmp_links |-> {}]
    /\ repeat = FALSE
    /\ shared = [l \in LinkNames |-> NoLink]
    /\ tmp_links = {}
    /\ relink = FALSE
    /\ shared_files = <<>>
    /\ order = <<>>
    /\ ls_order = Descending
    /\ procs = [p \in Procs |-> NoProc]
    /\ env = [k \in EnvKeys |-> Unset]
    /\ sites = <<>>
    /\ wrapper = NoWrapper

\* A task is called: its arguments and the remote state are recorded.
Enter(fn, release_name, tag, keep) ==
    /\ pc = "idle"
    /\ call' = [fn |-> fn, release_name |-> release_name, tag |-> tag,
                keep |-> keep]
    /\ pre' = FS
    /\ repeat' = (/\ fn = "clean_old_releases"
                  /\ call.fn = "clean_old_releases"
                  /\ call.keep = keep
                  /\ result = "None")
    /\ relink' = (/\ fn = "link_shared_files"
                  /\ call.fn = "link_shared_files"
                  /\ call.release_name = release_name
                  /\ result = "None")
    /\ UNCHANGED aux

----------------------------------------------------------------------------
(* create_release *)

\* mkdir -p, which accepts an existing directory.
MkdirParents(release_name) == FALSE

\* mkdir {release_path} exits non-zero: the name exists.
MkdirFails(release_name) == rel[release_name] # "none"

\* The call and its first command, mkdir, which fails on an existing name.
create_release(release_name, tag) ==
    /\ Enter("create_release", release_name, tag, 0)
    /\ local' = [NoLocal EXCEPT !.release_name = release_name]
    /\ IF MkdirFails(release_name)
       THEN /\ pc' = "idle"
            /\ result' = "abort"
            /\ UNCHANGED rel
       ELSE /\ rel' = [rel EXCEPT ![release_name] = "empty"]
            /\ pc' = "tar"
            /\ result' = "running"
    /\ UNCHANGED <<current, new_current, VERSION, sharedFs>>

\* git archive | tar -x: fails when the tag does not resolve.
run_tar ==
    /\ pc = "tar"
    /\ pc' = "idle"
    /\ IF call.tag \in GoodTags
       THEN /\ rel' = [rel EXCEPT ![local.release_name] = call.tag]
            /\ result' = "None"
       ELSE /\ result' = "abort"
            /\ UNCHANGED rel
    /\ UNCHANGED <<current, new_current, VERSION, call, local, pre,
                   repeat, relink, sharedFs, aux>>

----------------------------------------------------------------------------
(* activate_release *)

\* The call; release_name is an existing release directory.
activate_release(release_name) ==
    /\ rel[release_name] # "none"
    /\ Enter("activate_release", release_name, "", 0)
    /\ local' = [NoLocal EXCEPT !.release_name = release_name]
    /\ pc' = "ln"
    /\ result' = "running"
    /\ UNCHANGED <<rel, current, new_current, VERSION, sharedFs>>

\* ln -s {target} new_current, in releases_root.  With no new_current the
\* link is created.  With a new_current that leads to a directory, ln takes
\* it for a directory operand: it makes the link inside that directory, under
\* the target's base name, and leaves new_current as it is; it fails if the
\* base name is taken there.  The content of a release directory is what its
\* tag holds and what earlier commands left in it, which the state does not
\* record, so whether the name is taken is a choice.  With a new_current that
\* leads nowhere ln fails (File exists).
run_ln ==
    /\ pc = "ln"
    /\ LET target == get_release_path(local.release_name)
           dir == ResolveDir(new_current)
       IN  IF new_current = NoLink
           THEN /\ new_current' = target
                /\ pc' = "mv"
                /\ UNCHANGED result
           ELSE IF dir # None
           THEN \E taken \in BOOLEAN :
                    /\ pc' = IF taken THEN "idle" ELSE "mv"
                    /\ result' = IF taken THEN "abort" ELSE result
                    /\ UNCHANGED new_current
           ELSE /\ pc' = "idle"
                /\ result' = "abort"
                /\ UNCHANGED new_current
    /\ UNCHANGED <<rel, current, VERSION, call, local, pre, repeat, relink,
                   sharedFs, aux>>

\* mv -Tf new_current current: one rename(2), which replaces `current`.
run_mv ==
    /\ pc = "mv"
    /\ pc' = "idle"
    /\ IF new_current = NoLink
       THEN /\ result' = "abort"
            /\ UNCHANGED <<current, new_current>>
       ELSE /\ current' = new_current
            /\ new_current' = NoLink
            /\ result' = "None"
    /\ UNCHANGED <<rel, VERSION, call, local, pre, repeat, relink, sharedFs,
                   aux>>

----------------------------------------------------------------------------
(* clean_old_releases *)

\* rm -rf of one entry of the releases root.
Remove(name) ==
    /\ rel' = [n \in ReleaseNames |-> IF n = name THEN "none" ELSE rel[n]]
    /\ current' = IF name = CURRENT THEN NoLink ELSE current
    /\ new_current' = IF name = NEW_CURRENT THEN NoLink ELSE new_current

\* The call: the listing and the slice; the loop body is run_rm.
clean_old_releases(keep) ==
    /\ Enter("clean_old_releases", None, "", keep)
    /\ LET releases == OldReleases(get_releases, keep)
       IN  /\ local' = [NoLocal EXCEPT !.releases = releases]
           /\ IF releases = <<>>
              THEN pc' = "idle" /\ result' = "None"
              ELSE pc' = "rm" /\ result' = "running"
    /\ UNCHANGED <<rel, current, new_current, VERSION, sharedFs>>

\* One iteration: rm -rf of the next release of the slice.
run_rm ==
    /\ pc = "rm"
    /\ Remove(Head(local.releases))
    /\ local' = [local EXCEPT !.releases = Tail(local.releases)]
    /\ IF Tail(local.releases) = <<>>
       THEN pc' = "idle" /\ result' = "None"
       ELSE pc' = "rm" /\ result' = "running"
    /\ UNCHANGED <<VERSION, call, pre, repeat, relink, sharedFs, aux>>

----------------------------------------------------------------------------
(* update_version_file *)

\* echo {tag} > VERSION
update_version_file(tag) ==
    /\ Enter("update_version_file", None, tag, 0)
    /\ VERSION' = tag
    /\ local' = NoLocal
    /\ pc' = "idle"
    /\ result' = "None"
    /\ UNCHANGED <<rel, current, new_current, sharedFs>>

----------------------------------------------------------------------------
(* rollback *)

\* The call up to the prompt: the listing, the choice of the target, the two
\* early returns.  `except KeyError` catches no IndexError.
rollback(release_name) ==
    /\ Enter("rollback", release_name, "", 0)
    /\ LET installed_releases == get_releases
           prev == SecondToLast(installed_releases)
       IN  IF release_name = None
           THEN IF prev.exc = ""
                THEN /\ local' = [NoLocal EXCEPT !.release_name = prev.value]
                     /\ pc' = "prompt"
                     /\ result' = "running"
                ELSE /\ local' = NoLocal
                     /\ pc' = "idle"
                     /\ result' = IF prev.exc = "KeyError" THEN "1" ELSE prev.exc
           ELSE IF ~IsInstalled(release_name, installed_releases)
                THEN /\ local' = [NoLocal EXCEPT !.release_name = release_name]
                     /\ pc' = "idle"
                     /\ result' = "1"
                ELSE /\ local' = [NoLocal EXCEPT !.release_name = release_name]
                     /\ pc' = "prompt"
                     /\ result' = "running"
    /\ UNCHANGED <<rel, current, new_current, VERSION, sharedFs>>

\* The answer to the prompt: anything but "y" returns, "y" goes on to
\* activate_release(release_name).
prompt(answer) ==
    /\ pc = "prompt"
    /\ local' = [local EXCEPT !.confirm = answer]
    /\ IF Confirmed(answer)
       THEN pc' = "ln" /\ result' = "running"
       ELSE pc' = "idle" /\ result' = "None"
    /\ UNCHANGED <<rel, current, new_current, VERSION, call, pre,
                   repeat, relink, sharedFs, aux>>

----------------------------------------------------------------------------
(* link_shared_files *)

\* os.path.join(release_path, target)
target_abspath(release_name, target) ==
    get_release_path(release_name) \o <<target>>

\* The iteration orders a dict with the keys of f can have.
Orders(f) ==
    LET n == Cardinality(DOMAIN f)
    IN  {o \in [1..n -> DOMAIN f] : \A i, j \in 1..n : o[i] = o[j] => i = j}

\* The values env.shared_files can take.
Mappings == UNION {[d -> LinkNames] : d \in SUBSET Targets}

\* The link name of the first pair, whatever the target.
LinkNameOfFirst(target) == shared_files[order[1]]

\* The link_name that iteritems() yields with target.
LinkNameOf(target) == shared_files[target]

\* ln -s {target} {link_name}, with link_name removed first.
SharedUnlinked(link_name) == NoLink

\* shared_root/link_name after `ln -s {target} {tmp_link_name}`: the command
\* names the temporary link, so link_name is as it was.
SharedAfterLn(link_name) == shared[link_name]

\* A copy of the temporary link instead of a rename: the link stays.
TmpAfterCopy(tmp_link_name) == tmp_links

\* The temporary links after `mv -Tf {tmp_link_name} {link_name}`: the
\* rename takes the temporary name away.
TmpAfterMv(tmp_link_name) == {l \in tmp_links : l[1] # tmp_link_name}

\* The call; release_name is an existing release directory.  The loop body
\* is run_sh_ln, run_sh_mv.
link_shared_files(release_name) ==
    /\ rel[release_name] # "none"
    /\ Enter("link_shared_files", release_name, "", 0)
    /\ local' = [NoLocal EXCEPT !.release_name = release_name,
                                !.items = order]
    /\ IF order = <<>>
       THEN pc' = "idle" /\ result' = "None"
       ELSE pc' = "sh_ln" /\ result' = "running"
    /\ UNCHANGED <<rel, current, new_current, VERSION, sharedFs>>

\* tmp_link_name = str(uuid.uuid4()); ln -s {target} {tmp_link_name}, in
\* shared_root.  The name is one no entry of shared_root has.
run_sh_ln ==
    /\ pc = "sh_ln"
    /\ \E u \in Uuids :
        /\ \A l \in tmp_links : l[1] # u
        /\ LET target == Head(local.items)
           IN  /\ tmp_links' = tmp_links \cup
                       {<<u, target_abspath(local.release_name, target)>>}
               /\ shared' = [l \in LinkNames |->
                       IF l = LinkNameOf(target) THEN SharedAfterLn(l)
                       ELSE shared[l]]
        /\ local' = [local EXCEPT !.tmp_link_name = u]
    /\ pc' = "sh_mv"
    /\ UNCHANGED <<rel, current, new_current, VERSION, call, result, pre,
                   repeat, relink, aux>>

\* mv -Tf {tmp_link_name} {link_name}: one rename(2), which replaces
\* link_name; then the next pair, or the return.
run_sh_mv ==
    /\ pc = "sh_mv"
    /\ LET link_name == LinkNameOf(Head(local.items))
           link == CHOOSE l \in tmp_links : l[1] = local.tmp_link_name
       IN  /\ shared' = [shared EXCEPT ![link_name] = link[2]]
           /\ tmp_links' = TmpAfterMv(local.tmp_link_name)
    /\ local' = [local EXCEPT !.items = Tail(local.items),
                              !.tmp_link_name = 0]
    /\ IF Tail(local.items) = <<>>
       THEN pc' = "idle" /\ result' = "None"
       ELSE pc' = "sh_ln" /\ result' = "running"
    /\ UNCHANGED <<rel, current, new_current, VERSION, call, pre, repeat,
                   relink, aux>>

----------------------------------------------------------------------------
(* The task is interrupted between two remote commands *)

Interrupt ==
    /\ pc # "idle"
    /\ pc' = "idle"
    /\ result' = "interrupted"
    /\ UNCHANGED <<rel, current, new_current, VERSION, call, local,
                   pre, repeat, relink, sharedFs, aux>>

----------------------------------------------------------------------------

Next ==
    \/ \E n \in ReleaseNames, t \in Tags : create_release(n, t)
    \/ run_tar
    \/ \E n \in ReleaseNames : activate_release(n)
    \/ run_ln
    \/ run_mv
    \/ \E k \in 0..MaxKeep : clean_old_releases(k)
    \/ run_rm
    \/ \E t \in GoodTags : update_version_file(t)
    \/ \E n \in ReleaseNames \cup {None} : rollback(n)
    \/ \E a \in Answers : prompt(a)
    \/ Interrupt

Spec == Init /\ [][Next]_vars

\* The server after releases were created, with each value env.shared_files
\* and its iteration order can take; the tasks of a deployment that links the
\* shared files and activates, and of a rollback.
InitShared ==
    /\ rel = [n \in ReleaseNames |-> "1.2.2"]
    /\ current = NoLink
    /\ new_current = NoLink
    /\ VERSION = "none"
    /\ pc = "idle"
    /\ call = NoCall
    /\ local = NoLocal
    /\ result = "None"
    /\ pre = [rel |-> [n \in ReleaseNames |-> "1.2.2"], current |-> NoLink,
              new_current |-> NoLink, VERSION |-> "none",
              shared |-> [l \in LinkNames |-> NoLink], tmp_links |-> {}]
    /\ repeat = FALSE
    /\ shared = [l \in LinkNames |-> NoLink]
    /\ tmp_links = {}
    /\ relink = FALSE
    /\ shared_files \in Mappings
    /\ order \in Orders(shared_files)
    /\ ls_order = Descending
    /\ procs = [p \in Procs |-> NoProc]
    /\ env = [k \in EnvKeys |-> Unset]
    /\ sites = <<>>
    /\ wrapper = NoWrapper

\* link_shared_files alone.
NextShared ==
    \/ \E n \in ReleaseNames : link_shared_files(n)
    \/ run_sh_ln
    \/ run_sh_mv
    \/ Interrupt

SpecShared == InitShared /\ [][NextShared]_vars

\* A deployment: the shared files are linked, releases are activated and
\* rolled back, each task running to its end.
NextDeploy ==
    \/ \E n \in ReleaseNames : link_shared_files(n)
    \/ run_sh_ln
    \/ run_sh_mv
    \/ \E n \in ReleaseNames : activate_release(n)
    \/ run_ln
    \/ run_mv
    \/ \E n \in ReleaseNames \cup {None} : rollback(n)
    \/ \E a \in Answers : prompt(a)

\* The servers of InitShared on which every target has a link name of its
\* own.
InitDeploy ==
    /\ InitShared
    /\ DOMAIN shared_files = Targets
    /\ \A t, u \in Targets : shared_files[t] = shared_files[u] => t = u

SpecDeploy == InitDeploy /\ [][NextDeploy]_vars

\* Two activate_release calls at once, each from its own fab process, on the
\* same server: the remote commands of the two interleave freely, nothing
\* locks.  Caller p calls for an existing release the other did not name.
conc_activate_release(p, release_name) ==
    /\ procs[p].pc = "idle"
    /\ rel[release_name] # "none"
    /\ \A q \in Procs \ {p} : procs[q].release_name # release_name
    /\ procs' = [procs EXCEPT ![p] = [pc |-> "ln",
                                      release_name |-> release_name,
                                      result |-> "running"]]
    /\ UNCHANGED <<rel, current, new_current, VERSION, pc, call, local,
                   result, pre, repeat, relink, sharedFs, config,
                   site_state>>

\* Caller p's ln -s {target} new_current, as in run_ln.
conc_ln(p) ==
    /\ procs[p].pc = "ln"
    /\ LET target == get_release_path(procs[p].release_name)
           dir == ResolveDir(new_current)
       IN  IF new_current = NoLink
           THEN /\ new_current' = target
                /\ procs' = [procs EXCEPT ![p].pc = "mv"]
           ELSE IF dir # None
           THEN \E taken \in BOOLEAN :
                    /\ procs' = [procs EXCEPT
                                    ![p].pc = IF taken THEN "done" ELSE "mv",
                                    ![p].result = IF taken THEN "abort"
                                                           ELSE @]
                    /\ UNCHANGED new_current
           ELSE /\ procs' = [procs EXCEPT ![p].pc = "done",
                                          ![p].result = "abort"]
                /\ UNCHANGED new_current
    /\ UNCHANGED <<rel, current, VERSION, pc, call, local, result, pre,
                   repeat, relink, sharedFs, config,
                   site_state>>

\* Caller p's mv -Tf new_current current, as in run_mv: it fails when the
\* other caller has already renamed new_current away.
conc_mv(p) ==
    /\ procs[p].pc = "mv"
    /\ IF new_current = NoLink
       THEN /\ procs' = [procs EXCEPT ![p].pc = "done",
                                      ![p].result = "abort"]
            /\ UNCHANGED <<current, new_current>>
       ELSE /\ current' = new_current
            /\ new_current' = NoLink
            /\ procs' = [procs EXCEPT ![p].pc = "done",
                                      ![p].result = "None"]
    /\ UNCHANGED <<rel, VERSION, pc, call, local, result, pre, repeat,
                   relink, sharedFs, config,
                   site_state>>

\* Three installed releases, one of them active, and the new_current that an
\* earlier interrupted activation may have left.
InitConc ==
    /\ rel = [n \in ReleaseNames |-> "1.2.2"]
    /\ current \in {get_release_path(n) : n \in ReleaseNames}
    /\ new_current \in {NoLink} \cup {get_release_path(n) : n \in ReleaseNames}
    /\ VERSION = "none"
    /\ pc = "idle"
    /\ call = NoCall
    /\ local = NoLocal
    /\ result = "None"
    /\ shared = [l \in LinkNames |-> NoLink]
    /\ tmp_links = {}
    /\ pre = FS
    /\ repeat = FALSE
    /\ relink = FALSE
    /\ shared_files = <<>>
    /\ order = <<>>
    /\ ls_order = Descending
    /\ procs = [p \in Procs |-> NoProc]
    /\ env = [k \in EnvKeys |-> Unset]
    /\ sites = <<>>
    /\ wrapper = NoWrapper

NextConc ==
    \/ \E p \in Procs, n \in ReleaseNames : conc_activate_release(p, n)
    \/ \E p \in Procs : conc_ln(p)
    \/ \E p \in Procs : conc_mv(p)

SpecConc == InitConc /\ [][NextConc]_vars

\* get_releases called on its own; the list it returns is kept in
\* local.releases.
get_releases_call ==
    /\ Enter("get_releases", None, "", 0)
    /\ local' = [NoLocal EXCEPT !.releases = get_releases]
    /\ result' = "None"
    /\ UNCHANGED <<rel, current, new_current, VERSION, pc, sharedFs>>

\* Every order in which a shell can list the names.
Listings ==
    {f \in [1..(MaxRel + 2) -> AllNames] :
        \A i, j \in 1..(MaxRel + 2) : f[i] = f[j] => i = j}

\* Any content of the releases root, listed in any order.
InitListing ==
    /\ rel \in [ReleaseNames -> {"none", "1.2.2"}]
    /\ current \in {NoLink} \cup {get_release_path(n) : n \in ReleaseNames}
    /\ new_current \in {NoLink, get_release_path(1)}
    /\ VERSION = "none"
    /\ pc = "idle"
    /\ call = NoCall
    /\ local = NoLocal
    /\ result = "None"
    /\ pre = [rel |-> [n \in ReleaseNames |-> "none"], current |-> NoLink,
              new_current |-> NoLink, VERSION |-> "none",
              shared |-> [l \in LinkNames |-> NoLink], tmp_links |-> {}]
    /\ repeat = FALSE
    /\ shared = [l \in LinkNames |-> NoLink]
    /\ tmp_links = {}
    /\ relink = FALSE
    /\ shared_files = <<>>
    /\ order = <<>>
    /\ ls_order \in Listings
    /\ procs = [p \in Procs |-> NoProc]
    /\ env = [k \in EnvKeys |-> Unset]
    /\ sites = <<>>
    /\ wrapper = NoWrapper

NextListing == get_releases_call

SpecListing == InitListing /\ [][NextListing]_vars

----------------------------------------------------------------------------
(* decorators.py: multisite *)

\* env.sites[site][selected_environment]: the settings of one environment of
\* one site.
Settings(site, selected_environment) ==
    [k \in SettingKeys |->
        IF selected_environment = "production"
        THEN (IF site = "blog" THEN "blog.example.org"
                               ELSE "shop.example.org")
        ELSE (IF site = "blog" THEN "staging.blog.example.org"
                               ELSE "staging.shop.example.org")]

\* The site of a call: the first positional argument, else the first
\* default of the wrapped function, else None.
SiteOf(args, defaults) ==
    IF args # <<>> THEN args[1]
    ELSE IF defaults # <<>> THEN defaults[1]
    ELSE PyNone

\* A wrapper that takes None for a site like any other.
IsNoneNever(site) == FALSE

\* site is None
IsNone(site) == site = PyNone

\* The wrapped function func is called with args; its defaults are those it
\* was defined with.
wrapper_call(func, args, defaults) ==
    /\ wrapper.pc \in {"idle", "returned", "raised"}
    /\ wrapper' = [pc |-> IF IsNone(SiteOf(args, defaults))
                             THEN "invoke" ELSE "check_site",
                   func |-> func, args |-> args, defaults |-> defaults,
                   site |-> SiteOf(args, defaults), items |-> <<>>,
                   before |-> env, raised |-> "none", invoked |-> FALSE]
    /\ UNCHANGED <<rel, current, new_current, VERSION, pc, call, local,
                   result, pre, repeat, relink, sharedFs, config, procs,
                   env, sites>>

\* if site not in env.sites: raise
check_site ==
    /\ wrapper.pc = "check_site"
    /\ wrapper' = IF wrapper.site \notin DOMAIN sites
                  THEN [wrapper EXCEPT !.pc = "raised",
                                       !.raised = "not part of the sites"]
                  ELSE [wrapper EXCEPT !.pc = "check_env"]
    /\ UNCHANGED <<rel, current, new_current, VERSION, pc, call, local,
                   result, pre, repeat, relink, sharedFs, config, procs,
                   env, sites>>

\* if selected_environment not in env.sites[site]: raise; else the loop over
\* the settings starts, in the order iteritems() gives.
check_env ==
    /\ wrapper.pc = "check_env"
    /\ IF wrapper.func \notin sites[wrapper.site]
       THEN wrapper' = [wrapper EXCEPT !.pc = "raised",
                                       !.raised = "no environment"]
       ELSE \E o \in Orders(Settings(wrapper.site, wrapper.func)) :
                wrapper' = [wrapper EXCEPT !.pc = "copy", !.items = o]
    /\ UNCHANGED <<rel, current, new_current, VERSION, pc, call, local,
                   result, pre, repeat, relink, sharedFs, config, procs,
                   env, sites>>

\* One turn of the loop: env[setting] = value
copy_setting ==
    /\ wrapper.pc = "copy"
    /\ wrapper.items # <<>>
    /\ env' = [env EXCEPT ![Head(wrapper.items)] =
                   Settings(wrapper.site, wrapper.func)[Head(wrapper.items)]]
    /\ wrapper' = [wrapper EXCEPT !.items = Tail(wrapper.items)]
    /\ UNCHANGED <<rel, current, new_current, VERSION, pc, call, local,
                   result, pre, repeat, relink, sharedFs, config, procs,
                   sites>>

\* env.site = site, after the loop
set_site ==
    /\ wrapper.pc = "copy"
    /\ wrapper.items = <<>>
    /\ env' = [env EXCEPT !["site"] = wrapper.site]
    /\ wrapper' = [wrapper EXCEPT !.pc = "invoke"]
    /\ UNCHANGED <<rel, current, new_current, VERSION, pc, call, local,
                   result, pre, repeat, relink, sharedFs, config, procs,
                   sites>>

\* return func(*args, **kwargs)
invoke ==
    /\ wrapper.pc = "invoke"
    /\ wrapper' = [wrapper EXCEPT !.pc = "returned", !.invoked = TRUE]
    /\ UNCHANGED <<rel, current, new_current, VERSION, pc, call, local,
                   result, pre, repeat, relink, sharedFs, config, procs,
                   env, sites>>

\* Every env.sites over the site and environment names.
SiteConfigs == UNION {[S -> SUBSET EnvNames] : S \in SUBSET SiteNames}

\* What is passed positionally, or declared as defaults: nothing, or a site
\* first.
ArgLists == {<<>>} \cup {<<a>> : a \in SiteArgs}

InitMultisite ==
    /\ rel = [n \in ReleaseNames |-> "none"]
    /\ current = NoLink
    /\ new_current = NoLink
    /\ VERSION = "none"
    /\ pc = "idle"
    /\ call = NoCall
    /\ local = NoLocal
    /\ result = "None"
    /\ shared = [l \in LinkNames |-> NoLink]
    /\ tmp_links = {}
    /\ pre = FS
    /\ repeat = FALSE
    /\ relink = FALSE
    /\ shared_files = <<>>
    /\ order = <<>>
    /\ ls_order = Descending
    /\ procs = [p \in Procs |-> NoProc]
    /\ env = [k \in EnvKeys |-> Unset]
    /\ sites \in SiteConfigs
    /\ wrapper = NoWrapper

NextMultisite ==
    \/ \E func \in EnvNames, args \in ArgLists, defaults \in ArgLists :
           wrapper_call(func, args, defaults)
    \/ check_site
    \/ check_env
    \/ copy_setting
    \/ set_site
    \/ invoke

SpecMultisite == InitMultisite /\ [][NextMultisite]_vars

----------------------------------------------------------------------------
(* Properties *)

Min(S) == CHOOSE x \in S : \A y \in S : x <= y

\* The elements of a set of names, ascending.
RECURSIVE Ascending(_)
Ascending(S) == IF S = {} THEN <<>> ELSE <<Min(S)>> \o Ascending(S \ {Min(S)})

\* The release directories of remote state fs, oldest to newest.
Installed(fs) == Ascending({n \in ReleaseNames : fs.rel[n] # "none"})

\* A path of remote state fs leads to an existing release directory.
Valid(fs, path) ==
    /\ path # NoLink
    /\ path[2] \in ReleaseNames
    /\ fs.rel[path[2]] # "none"

\* C1: during activate_release(R), before ln, between ln and mv, after mv and
\* after an interruption, `current` is the pointer it was before the call or
\* a pointer to get_release_path(R), and a `current` that was valid before
\* the call is valid.
C1_CurrentOldOrNew ==
    call.fn = "activate_release" =>
        /\ current \in {pre.current, get_release_path(call.release_name)}
        /\ (Valid(pre, pre.current) => Valid(FS, current))

\* C2: when activate_release(R) has returned without error, `current` points
\* to get_release_path(R), whatever the releases root held before.
C2_ActivatedIsCurrent ==
    (call.fn = "activate_release" /\ pc = "idle" /\ result = "None") =>
        current = get_release_path(call.release_name)

\* C3: clean_old_releases never removes the release directory `current`
\* points to, so `current`, once it exists, points to an existing release
\* directory after any sequence of tasks.
C3_CleanKeepsCurrent ==
    /\ (call.fn = "clean_old_releases" /\ Valid(pre, pre.current)) =>
           rel[pre.current[2]] # "none"
    /\ (current # NoLink => Valid(FS, current))

\* C4: `current` does not exist or points to a release whose create_release
\* ran both mkdir and the extraction; it never points to a directory that
\* mkdir made and nothing was extracted into.
C4_CurrentNeverPartial ==
    Valid(FS, current) => rel[current[2]] \in GoodTags

\* C5: when clean_old_releases(keep) has returned, of the n release
\* directories installed at the call exactly the min(n, keep) most recent
\* ones are left (the max(n - keep, 0) oldest are removed).
C5_CleanRemovesOldest ==
    (call.fn = "clean_old_releases" /\ pc = "idle" /\ result = "None") =>
        LET installed == Installed(pre)
            n == Len(installed)
            kept == IF n < call.keep THEN n ELSE call.keep
        IN  {r \in ReleaseNames : rel[r] # "none"}
                = {installed[i] : i \in (n - kept + 1)..n}

\* C6: a clean_old_releases(keep) called right after a clean_old_releases
\* with the same keep has returned removes nothing: it has no release to
\* remove, returns at once and leaves the remote state as it found it.
C6_CleanIdempotent ==
    repeat =>
        /\ local.releases = <<>>
        /\ pc = "idle"
        /\ result = "None"
        /\ FS = pre

\* C6 witness: a repeated clean_old_releases(1) has returned over a releases
\* root in which the first call left one entry, `current`, of the releases
\* and the link it found.
C6_Witness ==
    /\ repeat
    /\ call.keep = 1
    /\ Entries(FS) = {CURRENT}
    /\ pc = "idle"

\* C7: rollback() with no release name and fewer than 2 releases installed
\* returns 1 and changes nothing on the server.
C7_RollbackNoPrevious ==
    (/\ call.fn = "rollback"
     /\ call.release_name = None
     /\ Len(Installed(pre)) < 2) =>
        /\ pc = "idle"
        /\ result = "1"
        /\ FS = pre

\* C8: rollback(X) with X not in the listing returns 1 without prompting and
\* without any command that changes the server: `current`, `new_current`,
\* VERSION and the release directories are as they were.
C8_RollbackNotInstalled ==
    (/\ call.fn = "rollback"
     /\ call.release_name # None
     /\ call.release_name \notin Entries(pre)) =>
        /\ pc = "idle"
        /\ result = "1"
        /\ local.confirm = Unbound
        /\ FS = pre

\* C8 witness: rollback of a release that is not installed, on a server with
\* an active release, has returned 1.
C8_Witness ==
    /\ call.fn = "rollback"
    /\ call.release_name # None
    /\ call.release_name \notin Entries(pre)
    /\ Valid(pre, pre.current)
    /\ result = "1"

\* C9: in rollback, once the prompt has returned an answer other than "y",
\* the task has returned None, activate_release was not called (no ln, no
\* mv) and the remote state is as it was.
C9_RollbackDeclined ==
    (call.fn = "rollback" /\ local.confirm \notin {Unbound, "y"}) =>
        /\ pc = "idle"
        /\ result = "None"
        /\ FS = pre

\* C9 witness: a rollback to an installed release other than the active one
\* was answered "Y" and has returned.
C9_Witness ==
    /\ call.fn = "rollback"
    /\ local.confirm = "Y"
    /\ Valid(pre, pre.current)
    /\ local.release_name \in ReleaseNames
    /\ get_release_path(local.release_name) # pre.current
    /\ pc = "idle"

\* C10: a rollback answered "y" that has returned leaves `current` pointing
\* to the named release when one was given, and otherwise, with at least 2
\* releases installed, to the second-to-last release of the sorted list.
C10_RollbackActivatesTarget ==
    (/\ call.fn = "rollback"
     /\ local.confirm = "y"
     /\ pc = "idle"
     /\ result = "None") =>
        LET installed == Installed(pre)
        IN  IF call.release_name # None
            THEN current = get_release_path(call.release_name)
            ELSE Len(installed) >= 2 =>
                     current = get_release_path(installed[Len(installed) - 1])

\* C11: when an activation has completed, by activate_release or by a
\* rollback answered "y", VERSION holds the tag the release `current` points
\* to was created from.
C11_VersionIsActiveTag ==
    (/\ \/ call.fn = "activate_release"
        \/ (call.fn = "rollback" /\ local.confirm = "y")
     /\ pc = "idle"
     /\ result = "None"
     /\ Valid(FS, current)) =>
        VERSION = rel[current[2]]

\* C15: create_release(name, tag) for a name that exists as a release
\* directory aborts at mkdir: the extraction is not run and the remote
\* state (that directory, `current`, the other releases) is as it was.
C15_CreateExistingAborts ==
    (call.fn = "create_release" /\ pre.rel[call.release_name] # "none") =>
        /\ pc = "idle"
        /\ result = "abort"
        /\ FS = pre

\* C15 witness: create_release on the name of the extracted release that
\* `current` points to has aborted.
C15_Witness ==
    /\ call.fn = "create_release"
    /\ pre.rel[call.release_name] \in GoodTags
    /\ pre.current = get_release_path(call.release_name)
    /\ call.tag \in GoodTags
    /\ result = "abort"

\* C17: an activation interrupted between ln and mv leaves new_current
\* behind and a valid `current` valid, and an activate_release(R') that then
\* runs to completion leaves `current` pointing to get_release_path(R').
C17_RetryAfterInterrupt ==
    /\ (/\ call.fn = "activate_release"
        /\ result = "interrupted"
        /\ Valid(pre, pre.current)) => Valid(FS, current)
    /\ (/\ call.fn = "activate_release"
        /\ pre.new_current # NoLink
        /\ pc = "idle"
        /\ result = "None") =>
           current = get_release_path(call.release_name)

\* The links of shared_root after the pairs of env.shared_files are linked
\* into release_name one after the other in order o.
RECURSIVE Replay(_, _, _)
Replay(links, o, release_name) ==
    IF o = <<>> THEN links
    ELSE Replay([links EXCEPT ![shared_files[Head(o)]] =
                     target_abspath(release_name, Head(o))],
                Tail(o), release_name)

\* No two targets of env.shared_files have the same link name.
DistinctLinkNames ==
    \A t, u \in DOMAIN shared_files : shared_files[t] = shared_files[u] => t = u

\* C12 as stated: during link_shared_files(R), before and after every
\* command and after an interruption, the link_name of every configured
\* (target, link_name) pair points to its previous target or to that target
\* inside R.
C12_LinkOldOrItsTarget ==
    call.fn = "link_shared_files" =>
        \A t \in DOMAIN shared_files :
            shared[shared_files[t]] \in
                {pre.shared[shared_files[t]],
                 target_abspath(call.release_name, t)}

\* C12 amended: during link_shared_files(R) every link name of shared_root
\* is as it was before the call or points to a target inside R that
\* env.shared_files gives that link name; it is never removed.
C12_LinkOldOrConfigured ==
    call.fn = "link_shared_files" =>
        \A l \in LinkNames :
            shared[l] \in {pre.shared[l]} \cup
                {target_abspath(call.release_name, t) :
                     t \in {u \in DOMAIN shared_files : shared_files[u] = l}}

\* C12 witness: link_shared_files was interrupted between ln and mv of a
\* pair whose link_name pointed into another release.
C12_Witness ==
    /\ call.fn = "link_shared_files"
    /\ result = "interrupted"
    /\ local.tmp_link_name # 0
    /\ LET l == shared_files[Head(local.items)]
       IN  /\ pre.shared[l] # NoLink
           /\ pre.shared[l][2] # call.release_name
           /\ shared[l] = pre.shared[l]

\* C13: a link_shared_files(R) that ran right after a link_shared_files(R)
\* had returned leaves shared_root as the first run left it: every link_name
\* on the same target, no temporary link more or less.
C13_RelinkIdempotent ==
    (relink /\ pc = "idle" /\ result = "None") => FS = pre

\* C13 witness: the second run over two pairs has returned.
C13_Witness ==
    /\ relink
    /\ pc = "idle"
    /\ result = "None"
    /\ Cardinality(DOMAIN shared_files) = 2
    /\ \A t \in DOMAIN shared_files :
           shared[shared_files[t]][2] = call.release_name

\* C14: when an activation (activate_release, or a rollback answered "y")
\* has swapped `current` to a release, every declared shared link points to
\* its target inside that release.
C14_LinkedBeforeActivated ==
    (/\ \/ call.fn = "activate_release"
        \/ (call.fn = "rollback" /\ local.confirm = "y")
     /\ pc = "idle"
     /\ result = "None"
     /\ current # NoLink) =>
        \A t \in DOMAIN shared_files :
            shared[shared_files[t]] = target_abspath(current[2], t)

\* C18 as stated: when link_shared_files(R) has returned, shared_root is what
\* every iteration order of env.shared_files yields, for every mapping.
C18_AnyOrderSameLinks ==
    (call.fn = "link_shared_files" /\ pc = "idle" /\ result = "None") =>
        \A o \in Orders(shared_files) :
            shared = Replay(pre.shared, o, call.release_name)

\* C18 amended: the same for every mapping in which no two targets have the
\* same link_name.
C18_AnyOrderSameLinksDistinct ==
    (/\ call.fn = "link_shared_files"
     /\ pc = "idle"
     /\ result = "None"
     /\ DistinctLinkNames) =>
        \A o \in Orders(shared_files) :
            shared = Replay(pre.shared, o, call.release_name)

\* C18 witness: link_shared_files has returned over two pairs with link
\* names of their own, both of which pointed into another release.
C18_Witness ==
    /\ call.fn = "link_shared_files"
    /\ pc = "idle"
    /\ result = "None"
    /\ DistinctLinkNames
    /\ Cardinality(DOMAIN shared_files) = 2
    /\ \A t \in DOMAIN shared_files :
           /\ pre.shared[shared_files[t]] # NoLink
           /\ pre.shared[shared_files[t]] # shared[shared_files[t]]

\* C16: called on its own, get_releases returns the entries of the releases
\* root that ls lists, each once, ascending by name, in whatever order ls
\* listed them, and changes nothing on the server.
C16_ListingSorted ==
    call.fn = "get_releases" =>
        /\ Len(local.releases) = Cardinality(Entries(FS))
        /\ {local.releases[i] : i \in DOMAIN local.releases} = Entries(FS)
        /\ \A i, j \in DOMAIN local.releases :
               i < j => local.releases[i] < local.releases[j]
        /\ FS = pre

\* get_releases has returned four entries or more that ls listed out of
\* order, with both symlinks among them.
C16_Witness ==
    /\ call.fn = "get_releases"
    /\ Len(local.releases) >= 4
    /\ {CURRENT, NEW_CURRENT} \subseteq Entries(FS)
    /\ \E i \in 1..(Len(ls) - 1) : ls[i] > ls[i + 1]

\* C19: while two activate_release calls for two installed releases run at
\* once, `current` is what it was before or leads to one of the two releases,
\* and is never missing or dangling; when both have ended it leads to an
\* installed release.
C19_ConcurrentCurrent ==
    (\E p \in Procs : procs[p].pc # "idle") =>
        /\ Valid(FS, current)
        /\ \/ current = pre.current
           \/ \E p \in Procs :
                  /\ procs[p].pc # "idle"
                  /\ current = get_release_path(procs[p].release_name)

\* Whether the call in progress names a site that is not configured, or one
\* with no environment named after the wrapped function.
Rejected ==
    /\ wrapper.site # PyNone
    /\ \/ wrapper.site \notin DOMAIN sites
       \/ wrapper.func \notin sites[wrapper.site]

\* C20: a call of a @multisite function for a site that is not in env.sites,
\* or that has no environment named after the function, ends by an
\* exception with no key of env modified, env.site not assigned and the
\* function not invoked, at every step of the call; an exception is raised
\* in these cases only; and a call with no positional argument and no
\* default goes straight to the function, with env as it was.
C20_MultisiteRejects ==
    wrapper.pc # "idle" =>
        /\ Rejected =>
               /\ wrapper.pc \in {"check_site", "check_env", "raised"}
               /\ env = wrapper.before
               /\ ~wrapper.invoked
        /\ wrapper.pc = "raised" =>
               /\ Rejected
               /\ wrapper.raised =
                      IF wrapper.site \notin DOMAIN sites
                      THEN "not part of the sites" ELSE "no environment"
        /\ (wrapper.args = <<>> /\ wrapper.defaults = <<>>) =>
               /\ wrapper.pc \in {"invoke", "returned"}
               /\ env = wrapper.before
               /\ wrapper.invoked = (wrapper.pc = "returned")

\* After a call that copied the settings of one site, a call for a site with
\* no environment named after the function has raised.
C20_Witness ==
    /\ wrapper.pc = "raised"
    /\ wrapper.raised = "no environment"
    /\ env["site"] \in SiteNames
    /\ env["site"] # wrapper.site

====
